---- MODULE Spec2Model ----
(***************************************************************************)
(* Credit scoring API: the /predict and /health endpoints (api/app.py),    *)
(* the request schema (api/schemas.py), the prediction logging middleware  *)
(* (api/middleware.py) and its two sinks, the JSONL file and the           *)
(* predictions table (api/database.py).                                    *)
(*                                                                         *)
(* Numbers.  A feature value is an integer number of tenths (0.5 is 5,     *)
(* 1e8 is 1000000000, -15750 is -157500).  A probability is an integer     *)
(* number of 1e-7 units (0.10 is 1000000, 1.0 is 10000000), so that the    *)
(* seventh decimal, which round(probability, 6) drops, is visible.         *)
(***************************************************************************)
EXTENDS Integers, Sequences, FiniteSets, TLC

(***************************************************************************)
(* Bounds of the model.                                                    *)
(***************************************************************************)
\* requests the service receives in one run
MaxReq == 2
\* fields of the valid payload a request may alter (contract specification)
MaxAltered == 1

(***************************************************************************)
(* api/app.py: constants.                                                  *)
(***************************************************************************)
\* OPTIMAL_THRESHOLD = 0.10, in 1e-7 units
OPTIMAL_THRESHOLD == 1000000

FEATURE_ORDER ==
    << "EXT_SOURCES_MEAN", "CREDIT_TERM", "EXT_SOURCE_3",
       "GOODS_PRICE_CREDIT_PERCENT", "INSTAL_AMT_PAYMENT_sum", "AMT_ANNUITY",
       "POS_CNT_INSTALMENT_FUTURE_mean", "DAYS_BIRTH", "EXT_SOURCES_WEIGHTED",
       "EXT_SOURCE_2" >>

Fields == { FEATURE_ORDER[i] : i \in 1..Len(FEATURE_ORDER) }

(***************************************************************************)
(* JSON values of a payload field.  kind is "missing" (the key is absent), *)
(* "null", "str" (a non-numeric string), "list", "bool" (val 0 or 1) or    *)
(* "num" (val in tenths).                                                  *)
(***************************************************************************)
Missing == [kind |-> "missing", val |-> 0]
Null == [kind |-> "null", val |-> 0]
Str == [kind |-> "str", val |-> 0]
List == [kind |-> "list", val |-> 0]
Bool(b) == [kind |-> "bool", val |-> IF b THEN 1 ELSE 0]
Num(tenths) == [kind |-> "num", val |-> tenths]

\* the JSON object {}: every key absent
EmptyObject == [f \in Fields |-> Missing]

(***************************************************************************)
(* api/schemas.py: CreditFeatures.  Each field's type and Field(...)       *)
(* constraints; ge/gt give lo and loStrict, le/lt give hi and hiStrict.    *)
(***************************************************************************)
FloatField(lo, loStrict, hi) ==
    [type |-> "float", lo |-> lo, loStrict |-> loStrict, hi |-> hi, hiStrict |-> FALSE]

CreditFeatures ==
    [f \in Fields |->
        CASE f = "EXT_SOURCES_MEAN" -> FloatField(0, FALSE, 10)
          [] f = "CREDIT_TERM" -> FloatField(0, FALSE, 10)
          [] f = "EXT_SOURCE_3" -> FloatField(0, FALSE, 10)
          [] f = "GOODS_PRICE_CREDIT_PERCENT" -> FloatField(0, FALSE, 15)
          [] f = "INSTAL_AMT_PAYMENT_sum" -> FloatField(0, FALSE, 1000000000)
          [] f = "AMT_ANNUITY" -> FloatField(0, TRUE, 10000000)
          [] f = "POS_CNT_INSTALMENT_FUTURE_mean" -> FloatField(0, FALSE, 2000)
          [] f = "DAYS_BIRTH" ->
                [type |-> "int", lo |-> -300000, loStrict |-> FALSE,
                 hi |-> 0, hiStrict |-> TRUE]
          [] f = "EXT_SOURCES_WEIGHTED" -> FloatField(0, FALSE, 30)
          [] f = "EXT_SOURCE_2" -> FloatField(0, FALSE, 10)]

\* ge / gt / le / lt of one Field(...)
InBounds(c, x) ==
    /\ IF c.loStrict THEN x > c.lo ELSE x >= c.lo
    /\ IF c.hiStrict THEN x < c.hi ELSE x <= c.hi

\* A JSON value coerced to the field's type, in tenths; the validation is lax:
\* true/false become 1/0, and an int field takes a float with no fractional part.
Coercible(c, v) ==
    \/ v.kind = "bool"
    \/ v.kind = "num" /\ (c.type = "int" => v.val % 10 = 0)

Coerce(v) == IF v.kind = "bool" THEN 10 * v.val ELSE v.val

\* faulty variant: every lower bound inclusive (gt read as ge)
FieldValidGe(f, v) ==
    /\ Coercible(CreditFeatures[f], v)
    /\ InBounds([CreditFeatures[f] EXCEPT !.loStrict = FALSE], Coerce(v))

\* one field of CreditFeatures accepts the value
FieldValid(f, v) ==
    /\ Coercible(CreditFeatures[f], v)
    /\ InBounds(CreditFeatures[f], Coerce(v))

\* the fields the 422 response enumerates
InvalidFields(payload) == { f \in Fields : ~FieldValid(f, payload[f]) }

\* faulty variant: a payload is accepted when the fields it does carry are valid
ValidatePresent(payload) ==
    \A f \in Fields : payload[f].kind /= "missing" => FieldValid(f, payload[f])

\* CreditFeatures(**payload) raises no ValidationError
Validate(payload) == InvalidFields(payload) = {}

(***************************************************************************)
(* Bytes.  A body or a log line is a sequence of JSON tokens, all of one   *)
(* shape: k the token kind, s its text, n its number, o its object (a      *)
(* sequence: empty, or the one object).                                    *)
(***************************************************************************)
Tok(k, s, n, o) == [k |-> k, s |-> s, n |-> n, o |-> o]
LBrace == Tok("{", "", 0, <<>>)
RBrace == Tok("}", "", 0, <<>>)
Newline == Tok("nl", "", 0, <<>>)
Key(s) == Tok("key", s, 0, <<>>)
NumTok(n) == Tok("num", "", n, <<>>)
StrTok(s) == Tok("str", s, 0, <<>>)
NullTok == Tok("null", "", 0, <<>>)
BoolTok(b) == Tok("bool", "", IF b THEN 1 ELSE 0, <<>>)
ObjTok(o) == Tok("obj", "", 0, << o >>)
\* the list of validation errors of a 422 body: how many, and the offending inputs
ErrorsTok(s, n, o) == Tok("errors", s, n, o)
\* bytes that are not JSON
Garbage == Tok("garbage", "", 0, <<>>)

ValueKinds == {"num", "str", "null", "bool", "obj", "errors"}

\* json.loads(bytes) returns a dict: { key: value, ... }
IsJsonObject(bytes) ==
    /\ Len(bytes) >= 2
    /\ Len(bytes) % 2 = 0
    /\ bytes[1] = LBrace
    /\ bytes[Len(bytes)] = RBrace
    /\ \A i \in 1..((Len(bytes) - 2) \div 2) :
          /\ bytes[2 * i].k = "key"
          /\ bytes[2 * i + 1].k \in ValueKinds

\* faulty variant: the key is looked up without checking that the bytes parse
JsonGetUnchecked(bytes, key) ==
    IF \E i \in 1..(Len(bytes) - 1) : bytes[i] = Key(key)
    THEN bytes[1 + CHOOSE i \in 1..(Len(bytes) - 1) : bytes[i] = Key(key)]
    ELSE NullTok

\* json.loads(bytes).get(key), {} standing for bytes that do not parse:
\* the value of the key, None (null) when it is absent
JsonGet(bytes, key) ==
    IF IsJsonObject(bytes)
          /\ \E i \in 1..((Len(bytes) - 2) \div 2) : bytes[2 * i] = Key(key)
    THEN LET i == CHOOSE j \in 1..((Len(bytes) - 2) \div 2) :
                      /\ bytes[2 * j] = Key(key)
                      /\ \A h \in (j + 1)..((Len(bytes) - 2) \div 2) :
                            bytes[2 * h] /= Key(key)
         IN bytes[2 * i + 1]
    ELSE NullTok

(***************************************************************************)
(* api/app.py: predict, the decision policy and the response.              *)
(***************************************************************************)
\* round(probability, 6): to the nearest multiple of 1e-6, a tie to the even one
Round6(p) ==
    LET q == p \div 10
        r == p % 10
    IN IF r < 5 \/ (r = 5 /\ q % 2 = 0) THEN 10 * q ELSE 10 * (q + 1)

\* faulty variant: the threshold excluded
PredictionGt(probability) == IF probability > OPTIMAL_THRESHOLD THEN 1 ELSE 0

\* prediction = int(probability >= OPTIMAL_THRESHOLD)
Prediction(probability) == IF probability >= OPTIMAL_THRESHOLD THEN 1 ELSE 0

\* faulty variant: the labels exchanged
CreditDecisionSwapped(prediction) == IF prediction = 1 THEN "approved" ELSE "denied"

\* credit_decision = "denied" if prediction == 1 else "approved"
CreditDecision(prediction) == IF prediction = 1 THEN "denied" ELSE "approved"

\* PredictionResponse(...) serialized
PredictionResponse(probability) ==
    << LBrace,
       Key("prediction"), NumTok(Prediction(probability)),
       Key("probability_default"), NumTok(Round6(probability)),
       Key("credit_decision"), StrTok(CreditDecision(Prediction(probability))),
       RBrace >>

(***************************************************************************)
(* Request bodies and payloads.                                            *)
(***************************************************************************)
\* tests/test_api.py: VALID_PAYLOAD
VALID_PAYLOAD ==
    [f \in Fields |->
        CASE f = "EXT_SOURCES_MEAN" -> Num(5)
          [] f = "CREDIT_TERM" -> Num(1)
          [] f = "EXT_SOURCE_3" -> Num(5)
          [] f = "GOODS_PRICE_CREDIT_PERCENT" -> Num(9)
          [] f = "INSTAL_AMT_PAYMENT_sum" -> Num(3186195)
          [] f = "AMT_ANNUITY" -> Num(249030)
          [] f = "POS_CNT_INSTALMENT_FUTURE_mean" -> Num(70)
          [] f = "DAYS_BIRTH" -> Num(-157500)
          [] f = "EXT_SOURCES_WEIGHTED" -> Num(15)
          [] f = "EXT_SOURCE_2" -> Num(6)]

\* a request body: bytes that parse to a JSON object, or bytes that do not parse
JsonBody(payload) == [parsable |-> TRUE, obj |-> payload]
GarbageBody == [parsable |-> FALSE, obj |-> EmptyObject]

\* What a client may put in one field: the JSON kinds, and numbers at, next to and
\* between the bounds the schema gives the field.
Positions ==
    { "missing", "null", "str", "list", "true",
      "below_lo", "lo", "frac", "below_hi", "hi", "above_hi" }

\* the step next to a bound: a tenth, a whole unit for the integer field
Step(f) == IF CreditFeatures[f].type = "int" THEN 10 ELSE 1

PositionValue(f, pos) ==
    CASE pos = "missing" -> Missing
      [] pos = "null" -> Null
      [] pos = "str" -> Str
      [] pos = "list" -> List
      [] pos = "true" -> Bool(TRUE)
      [] pos = "below_lo" -> Num(CreditFeatures[f].lo - Step(f))
      [] pos = "lo" -> Num(CreditFeatures[f].lo)
      [] pos = "frac" -> Num(CreditFeatures[f].lo + 5)
      [] pos = "below_hi" -> Num(CreditFeatures[f].hi - Step(f))
      [] pos = "hi" -> Num(CreditFeatures[f].hi)
      [] pos = "above_hi" -> Num(CreditFeatures[f].hi + Step(f))

\* VALID_PAYLOAD with at most MaxAltered fields replaced
AlteredPayloads ==
    UNION { { [f \in Fields |-> IF f \in S THEN PositionValue(f, g[f]) ELSE VALID_PAYLOAD[f]] :
                g \in [S -> Positions] } :
            S \in { T \in SUBSET Fields : Cardinality(T) <= MaxAltered } }

\* VALID_PAYLOAD with any subset of its fields removed ({} when all are)
PartialPayloads ==
    { [f \in Fields |-> IF f \in S THEN Missing ELSE VALID_PAYLOAD[f]] : S \in SUBSET Fields }

ContractBodies == { JsonBody(p) : p \in AlteredPayloads \cup PartialPayloads } \cup {GarbageBody}

\* the positive-class probabilities the model may return, in 1e-7 units
ContractProbabilities ==
    { 0, 4, 999994, 999996, 1000000, 1000004, 5000000, 9999996, 10000000 }

SampleBodies ==
    { JsonBody(VALID_PAYLOAD),
      JsonBody([VALID_PAYLOAD EXCEPT !["EXT_SOURCES_MEAN"] = Bool(TRUE)]),
      JsonBody([VALID_PAYLOAD EXCEPT !["EXT_SOURCES_MEAN"] = Missing]),
      GarbageBody }

SampleProbabilities == { 5000000 }

(***************************************************************************)
(* The HTTP surface: what call_next(request) gives the middleware.  A      *)
(* response is its status code, its header list, the chunks of its body    *)
(* stream and its media_type attribute ("none" on the streaming wrapper    *)
(* call_next returns: the media type travels in the content-type header).  *)
(***************************************************************************)
Header(name, value) == [name |-> name, value |-> value]

NoResponse ==
    [status_code |-> 0, raw_headers |-> <<>>, body_iterator |-> <<>>, media_type |-> "none"]

\* a JSON response of the framework: one body chunk
JSONResponse(status_code, body) ==
    [status_code |-> status_code,
     raw_headers |-> << Header("content-length", ToString(Len(body))),
                        Header("content-type", "application/json") >>,
     body_iterator |-> << body >>,
     media_type |-> "none"]

Detail(value) == << LBrace, Key("detail"), value, RBrace >>

\* the inputs a 422 response reports: the offending fields with their values
Offending(payload) ==
    [f \in Fields |-> IF FieldValid(f, payload[f]) THEN Missing ELSE payload[f]]

\* POST /predict: the body is validated against CreditFeatures before predict
\* runs; predict answers 503 without a session, and scores otherwise.  invoked
\* tells whether session.run was called.
Predict(body, sessionLoaded, probability) ==
    IF ~body.parsable
    THEN [response |-> JSONResponse(422, Detail(ErrorsTok("json_invalid", 1, <<>>))),
          invoked |-> FALSE]
    ELSE IF ~Validate(body.obj)
    THEN [response |->
              JSONResponse(422, Detail(ErrorsTok("validation",
                                                 Cardinality(InvalidFields(body.obj)),
                                                 << Offending(body.obj) >>))),
          invoked |-> FALSE]
    ELSE IF ~sessionLoaded
    THEN [response |-> JSONResponse(503, Detail(StrTok("Model not loaded"))),
          invoked |-> FALSE]
    ELSE [response |-> JSONResponse(200, PredictionResponse(probability)),
          invoked |-> TRUE]

\* GET /health
Health(sessionLoaded) ==
    JSONResponse(200, << LBrace, Key("status"), StrTok("healthy"),
                         Key("model_loaded"), BoolTok(sessionLoaded), RBrace >>)

\* the routes of app: /predict (POST) and /health (GET)
Endpoint(method, path, body, sessionLoaded, probability) ==
    CASE method = "POST" /\ path = "/predict" -> Predict(body, sessionLoaded, probability)
      [] method = "GET" /\ path = "/health" ->
            [response |-> Health(sessionLoaded), invoked |-> FALSE]
      [] path \in {"/predict", "/health"} /\ ~(method = "POST" /\ path = "/predict")
            /\ ~(method = "GET" /\ path = "/health") ->
            [response |-> JSONResponse(405, Detail(StrTok("Method Not Allowed"))),
             invoked |-> FALSE]
      [] OTHER ->
            [response |-> JSONResponse(404, Detail(StrTok("Not Found"))),
             invoked |-> FALSE]

Routes == { <<"POST", "/predict">>, <<"GET", "/health">>, <<"GET", "/predict">>,
            <<"POST", "/other">> }

(***************************************************************************)
(* api/middleware.py: the pieces of PredictionLoggingMiddleware.dispatch.  *)
(***************************************************************************)
\* dispatch intercepts the request (line 20)
\* faulty variant: the method is not looked at
InterceptedAnyMethod(method, path) == path = "/predict"

Intercepted(method, path) == method = "POST" /\ path = "/predict"

\* json.loads(body), {} when it does not parse (lines 24-27)
InputData(body) == IF body.parsable THEN body.obj ELSE EmptyObject

\* faulty variant: every outcome is logged
LogsStatusAlways(status_code) == TRUE

\* the condition under which an entry is built and written (line 35)
LogsStatus(status_code) == status_code = 200

\* faulty variant: the full variant's status code is recorded as well
LogEntryWithStatus(now, input_data, response_body) ==
    [timestamp |-> now,
     input_features |-> input_data,
     prediction |-> JsonGet(response_body, "prediction"),
     probability_default |-> JsonGet(response_body, "probability_default"),
     credit_decision |-> JsonGet(response_body, "credit_decision"),
     status_code |-> 200]

\* log_entry (lines 41-47); response_data is {} when the body does not parse
LogEntry(now, input_data, response_body) ==
    [timestamp |-> now,
     input_features |-> input_data,
     prediction |-> JsonGet(response_body, "prediction"),
     probability_default |-> JsonGet(response_body, "probability_default"),
     credit_decision |-> JsonGet(response_body, "credit_decision")]

\* json.dumps(log_entry)
Dumps(entry) ==
    << LBrace,
       Key("timestamp"), NumTok(entry.timestamp),
       Key("input_features"), ObjTok(entry.input_features),
       Key("prediction"), entry.prediction,
       Key("probability_default"), entry.probability_default,
       Key("credit_decision"), entry.credit_decision,
       RBrace >>

\* faulty variant: the line is not terminated
LogLineUnterminated(entry) == Dumps(entry)

\* what f.write appends (line 54)
LogLine(entry) == Dumps(entry) \o << Newline >>

\* faulty variant: the bytes land inside the record written before
WriteInterleaved(file, bytes) ==
    IF file = <<>> THEN bytes
    ELSE SubSeq(file, 1, Len(file) - 1) \o bytes \o << file[Len(file)] >>

\* open(LOG_FILE, "a") and f.write (lines 53-54): the bytes go to the end of the
\* file in one piece, the event loop running nothing else until the with block
\* is left
WriteAppend(file, bytes) == file \o bytes

\* faulty variant: the write is outside the try
DispatchCatchesNothing == FALSE

\* except Exception around the sink write (lines 55-56)
DispatchCatches == TRUE

\* dict(response.headers): one value per name, the first, in order of appearance
HeadersDict(raw_headers) ==
    LET keep == { i \in 1..Len(raw_headers) :
                    \A j \in 1..(i - 1) : raw_headers[j].name /= raw_headers[i].name }
    IN [k \in 1..Cardinality(keep) |->
          raw_headers[CHOOSE i \in keep : Cardinality({ j \in keep : j <= i }) = k]]

HasHeader(headers, name) == \E i \in 1..Len(headers) : headers[i].name = name

\* faulty variant: the status code is not passed on
ResponseDefaultStatus(content, status_code, headers, media_type) ==
    [status_code |-> 200, raw_headers |-> headers, body |-> content]

\* Response(content, status_code, headers, media_type) (lines 58-63): the given
\* headers, then content-length and content-type when they are not among them
Response(content, status_code, headers, media_type) ==
    [status_code |-> status_code,
     raw_headers |->
        headers
        \o (IF HasHeader(headers, "content-length") THEN <<>>
            ELSE << Header("content-length", ToString(Len(content))) >>)
        \o (IF media_type = "none" \/ HasHeader(headers, "content-type") THEN <<>>
            ELSE << Header("content-type", media_type) >>),
     body |-> content]

NoClient == [status_code |-> 0, raw_headers |-> <<>>, body |-> <<>>]

\* an exception that leaves dispatch: the server answers 500
ServerError ==
    [status_code |-> 500,
     raw_headers |-> << Header("content-length", "1"),
                        Header("content-type", "text/plain; charset=utf-8") >>,
     body |-> << StrTok("Internal Server Error") >>]

(***************************************************************************)
(* api/database.py                                                         *)
(***************************************************************************)
\* faulty variant: the handler re-raises
InsertCatchesNothing == FALSE

\* except Exception in insert_prediction (lines 108-109)
InsertCatches == TRUE

\* faulty variant: a failed insert drops the engine
EngineAfterInsertDropped(eng, ok) == eng /\ ok

\* _engine after insert_prediction: it is not assigned (lines 93-109)
EngineAfterInsert(eng, ok) == eng

\* faulty variant: the engine is kept after the failure
EngineKeptAfterFailure == TRUE

\* _engine = None in init_db's except (line 76)
EngineAfterFailure == FALSE

\* insert(predictions).values(...) (lines 100-106), id the autoincrement key
Row(id, entry) ==
    [id |-> id,
     timestamp |-> entry.timestamp,
     input_features |-> entry.input_features,
     prediction |-> entry.prediction,
     probability_default |-> entry.probability_default,
     credit_decision |-> entry.credit_decision]

(***************************************************************************)
(* State.                                                                  *)
(***************************************************************************)
VARIABLES
    databaseUrl,    \* os.environ has DATABASE_URL
    phase,          \* the application's lifespan: "created", "init_db", "create_all",
                    \* "running", "stopped", or "failed" (startup raised)
    startup,        \* how init_db ended: "none" (not yet), "unset", "engine_failed",
                    \* "schema_failed", "connected"
    session,        \* app.session is not None
    engine,         \* database._engine is not None
    logFile,        \* the bytes of logs/predictions.jsonl
    table,          \* the rows of the predictions table
    clock,          \* datetime.now()
    handed,         \* history: the entries handed to a sink, with request and sink
    req             \* the requests: pc the place in dispatch, during the phase at
                    \* arrival, handled the handler's response as it was produced,
                    \* failed whether the sink write raised, client what is sent back

vars == << databaseUrl, phase, startup, session, engine, logFile, table, clock, handed, req >>

Requests == 1..MaxReq

IdleRequest ==
    [pc |-> "idle", during |-> "", method |-> "", path |-> "", body |-> GarbageBody,
     input_data |-> EmptyObject, response |-> NoResponse, handled |-> NoResponse,
     response_body |-> <<>>, invoked |-> FALSE, failed |-> FALSE, client |-> NoClient]

Init ==
    /\ databaseUrl \in BOOLEAN
    /\ phase = "created"
    /\ startup = "none"
    /\ session = FALSE
    /\ engine = FALSE
    /\ logFile = <<>>
    /\ table = <<>>
    /\ clock = 0
    /\ handed = <<>>
    /\ req = [r \in Requests |-> IdleRequest]

\* no request is being served
Quiet == \A r \in Requests : req[r].pc \in {"idle", "done"}

(***************************************************************************)
(* api/app.py: lifespan.  The server serves requests between startup and   *)
(* shutdown; an application object used without its lifespan (as the       *)
(* tests' module-level client does) serves them in phase "created".        *)
(***************************************************************************)
\* LOG_DIR.mkdir; session = ort.InferenceSession(...): an exception leaves lifespan
LoadModel(ok) ==
    /\ phase = "created"
    /\ Quiet
    /\ IF ok
       THEN session' = TRUE /\ phase' = "init_db"
       ELSE session' = session /\ phase' = "failed"
    /\ UNCHANGED << databaseUrl, startup, engine, logFile, table, clock, handed, req >>

\* init_db: DATABASE_URL is not set
InitDbNoUrl ==
    /\ phase = "init_db"
    /\ ~databaseUrl
    /\ phase' = "running"
    /\ startup' = "unset"
    /\ UNCHANGED << databaseUrl, session, engine, logFile, table, clock, handed, req >>

\* init_db: _engine = create_async_engine(...)
InitDbCreateEngine(ok) ==
    /\ phase = "init_db"
    /\ databaseUrl
    /\ IF ok
       THEN engine' = TRUE /\ phase' = "create_all" /\ startup' = startup
       ELSE engine' = EngineAfterFailure /\ phase' = "running" /\ startup' = "engine_failed"
    /\ UNCHANGED << databaseUrl, session, logFile, table, clock, handed, req >>

\* init_db: async with _engine.begin() as conn: await conn.run_sync(metadata.create_all)
InitDbCreateAll(ok) ==
    /\ phase = "create_all"
    /\ phase' = "running"
    /\ IF ok
       THEN engine' = engine /\ startup' = "connected"
       ELSE engine' = EngineAfterFailure /\ startup' = "schema_failed"
    /\ UNCHANGED << databaseUrl, session, logFile, table, clock, handed, req >>

\* close_db, after the yield
Shutdown ==
    /\ phase = "running"
    /\ Quiet
    /\ phase' = "stopped"
    /\ engine' = FALSE
    /\ UNCHANGED << databaseUrl, startup, session, logFile, table, clock, handed, req >>

\* is_db_enabled()
IsDbEnabled == engine

(***************************************************************************)
(* A request, step by step: the awaits of dispatch are where requests      *)
(* interleave.                                                             *)
(***************************************************************************)
\* a client sends a request; requests are numbered in order of arrival
Arrive(r, bodies) ==
    /\ phase \in {"created", "running"}
    /\ req[r].pc = "idle"
    /\ \A q \in 1..(r - 1) : req[q].pc /= "idle"
    /\ \E route \in Routes :
          \E body \in IF Intercepted(route[1], route[2]) THEN bodies ELSE {GarbageBody} :
             req' = [req EXCEPT ![r] =
                        [@ EXCEPT !.pc = IF Intercepted(route[1], route[2])
                                         THEN "recv" ELSE "pass",
                                  !.during = phase,
                                  !.method = route[1],
                                  !.path = route[2],
                                  !.body = body]]
    /\ UNCHANGED << databaseUrl, phase, startup, session, engine, logFile, table, clock, handed >>

\* the bytes of a response stream, chunk after chunk
RECURSIVE Concat(_)
Concat(chunks) == IF chunks = <<>> THEN <<>> ELSE Head(chunks) \o Concat(Tail(chunks))

\* dispatch, lines 20-21: return await call_next(request)
PassThrough(r) ==
    /\ req[r].pc = "pass"
    /\ LET out == Endpoint(req[r].method, req[r].path, req[r].body, session, 0)
       IN req' = [req EXCEPT ![r] =
                     [@ EXCEPT !.pc = "reply",
                               !.handled = out.response,
                               !.client = [status_code |-> out.response.status_code,
                                           raw_headers |-> out.response.raw_headers,
                                           body |-> Concat(out.response.body_iterator)]]]
    /\ UNCHANGED << databaseUrl, phase, startup, session, engine, logFile, table, clock, handed >>

\* dispatch, lines 23-27
ReadBody(r) ==
    /\ req[r].pc = "recv"
    /\ req' = [req EXCEPT ![r] =
                  [@ EXCEPT !.pc = "call", !.input_data = InputData(req[r].body)]]
    /\ UNCHANGED << databaseUrl, phase, startup, session, engine, logFile, table, clock, handed >>

\* dispatch, line 29: response = await call_next(request)
CallNext(r, probabilities) ==
    /\ req[r].pc = "call"
    /\ \E probability \in probabilities :
          LET out == Endpoint(req[r].method, req[r].path, req[r].body, session, probability)
          IN req' = [req EXCEPT ![r] =
                        [@ EXCEPT !.pc = "stream",
                                  !.response = out.response,
                                  !.handled = out.response,
                                  !.invoked = out.invoked]]
    /\ UNCHANGED << databaseUrl, phase, startup, session, engine, logFile, table, clock, handed >>

\* dispatch, lines 31-33: one chunk of the body stream
ReadChunk(r) ==
    /\ req[r].pc = "stream"
    /\ req[r].response.body_iterator /= <<>>
    /\ req' = [req EXCEPT ![r] =
                  [@ EXCEPT !.response_body = @ \o Head(req[r].response.body_iterator),
                            !.response.body_iterator = Tail(@)]]
    /\ UNCHANGED << databaseUrl, phase, startup, session, engine, logFile, table, clock, handed >>

\* the Response dispatch returns (lines 58-63)
Returned(r) ==
    Response(req[r].response_body, req[r].response.status_code,
             HeadersDict(req[r].response.raw_headers), req[r].response.media_type)

\* faulty variant: the end of the stream is not waited for
BufferedEarly(r) == req[r].pc = "stream"

\* the stream has ended
Buffered(r) == req[r].pc = "stream" /\ req[r].response.body_iterator = <<>>

\* dispatch, lines 35 and 58-63: a status that is not logged
ReturnUnlogged(r) ==
    /\ Buffered(r)
    /\ ~LogsStatus(req[r].response.status_code)
    /\ req' = [req EXCEPT ![r] = [@ EXCEPT !.pc = "reply", !.client = Returned(r)]]
    /\ UNCHANGED << databaseUrl, phase, startup, session, engine, logFile, table, clock, handed >>

\* dispatch, lines 35-63 with is_db_enabled() false: the entry is written to the
\* file, or open/write raises (ok false); there is no await on the way
LogToFile(r, ok) ==
    /\ Buffered(r)
    /\ LogsStatus(req[r].response.status_code)
    /\ ~IsDbEnabled
    /\ LET entry == LogEntry(clock, req[r].input_data, req[r].response_body)
       IN /\ handed' = Append(handed, [req |-> r, entry |-> entry, sink |-> "file"])
          /\ logFile' = IF ok THEN WriteAppend(logFile, LogLine(entry)) ELSE logFile
    /\ clock' = clock + 1
    /\ req' = [req EXCEPT ![r] =
                  [@ EXCEPT !.pc = "reply",
                            !.failed = ~ok,
                            !.client = IF ok \/ DispatchCatches
                                       THEN Returned(r) ELSE ServerError]]
    /\ UNCHANGED << databaseUrl, phase, startup, session, engine, table >>

\* dispatch, lines 35-51 with is_db_enabled() true, and insert_prediction up to
\* its first await
StartInsert(r) ==
    /\ Buffered(r)
    /\ LogsStatus(req[r].response.status_code)
    /\ IsDbEnabled
    /\ handed' = Append(handed,
                        [req |-> r,
                         entry |-> LogEntry(clock, req[r].input_data, req[r].response_body),
                         sink |-> "db"])
    /\ clock' = clock + 1
    /\ req' = [req EXCEPT ![r] = [@ EXCEPT !.pc = "insert"]]
    /\ UNCHANGED << databaseUrl, phase, startup, session, engine, logFile, table >>

\* the entry request r handed over
EntryOf(r) == handed[CHOOSE i \in 1..Len(handed) : handed[i].req = r].entry

\* insert_prediction, lines 97-109, then dispatch lines 58-63: the transaction
\* commits the row, or raises (ok false)
InsertFinish(r, ok) ==
    /\ req[r].pc = "insert"
    /\ table' = IF ok THEN Append(table, Row(Len(table) + 1, EntryOf(r))) ELSE table
    /\ engine' = EngineAfterInsert(engine, ok)
    /\ req' = [req EXCEPT ![r] =
                  [@ EXCEPT !.pc = "reply",
                            !.failed = ~ok,
                            !.client = IF ok \/ InsertCatches \/ DispatchCatches
                                       THEN Returned(r) ELSE ServerError]]
    /\ UNCHANGED << databaseUrl, phase, startup, session, logFile, clock, handed >>

\* the response is sent to the client
Reply(r) ==
    /\ req[r].pc = "reply"
    /\ req' = [req EXCEPT ![r] = [@ EXCEPT !.pc = "done"]]
    /\ UNCHANGED << databaseUrl, phase, startup, session, engine, logFile, table, clock, handed >>

Next ==
    \/ \E ok \in BOOLEAN : LoadModel(ok)
    \/ InitDbNoUrl
    \/ \E ok \in BOOLEAN : InitDbCreateEngine(ok)
    \/ \E ok \in BOOLEAN : InitDbCreateAll(ok)
    \/ Shutdown
    \/ \E r \in Requests : Arrive(r, SampleBodies)
    \/ \E r \in Requests : PassThrough(r)
    \/ \E r \in Requests : ReadBody(r)
    \/ \E r \in Requests : CallNext(r, SampleProbabilities)
    \/ \E r \in Requests : ReadChunk(r)
    \/ \E r \in Requests : ReturnUnlogged(r)
    \/ \E r \in Requests : \E ok \in BOOLEAN : LogToFile(r, ok)
    \/ \E r \in Requests : StartInsert(r)
    \/ \E r \in Requests : \E ok \in BOOLEAN : InsertFinish(r, ok)
    \/ \E r \in Requests : Reply(r)

\* the service: MaxReq concurrent requests over both sinks
Spec == Init /\ [][Next]_vars

\* the steps of dispatch for request r
Dispatch(r) ==
    \/ PassThrough(r)
    \/ ReadBody(r)
    \/ CallNext(r, SampleProbabilities)
    \/ ReadChunk(r)
    \/ ReturnUnlogged(r)
    \/ \E ok \in BOOLEAN : LogToFile(r, ok)
    \/ StartInsert(r)
    \/ \E ok \in BOOLEAN : InsertFinish(r, ok)
    \/ Reply(r)

\* the bodies of the requests of the service with its event loop
LiveBodies == { JsonBody(VALID_PAYLOAD), GarbageBody }

InitLive == Init /\ databaseUrl

NextLive ==
    \/ \E ok \in BOOLEAN : LoadModel(ok)
    \/ \E ok \in BOOLEAN : InitDbCreateEngine(ok)
    \/ \E ok \in BOOLEAN : InitDbCreateAll(ok)
    \/ Shutdown
    \/ \E r \in Requests : Arrive(r, LiveBodies)
    \/ \E r \in Requests : Dispatch(r)

\* the service with its event loop, DATABASE_URL set (the file is the sink when
\* the engine is not there): a coroutine that can run is run, the handler and
\* the sink write finishing with a result or with an error
SpecLive == InitLive /\ [][NextLive]_vars /\ \A r \in Requests : WF_vars(Dispatch(r))

(***************************************************************************)
(* The request/response contract: one request at a time, its body drawn    *)
(* from ContractBodies and the model's probability from                    *)
(* ContractProbabilities, with the file sink.                              *)
(***************************************************************************)
InitContract == Init /\ ~databaseUrl

NextContract ==
    \/ \E ok \in BOOLEAN : LoadModel(ok)
    \/ InitDbNoUrl
    \/ Shutdown
    \/ Arrive(1, ContractBodies)
    \/ PassThrough(1)
    \/ ReadBody(1)
    \/ CallNext(1, ContractProbabilities)
    \/ ReadChunk(1)
    \/ ReturnUnlogged(1)
    \/ \E ok \in BOOLEAN : LogToFile(1, ok)
    \/ Reply(1)

SpecContract == InitContract /\ [][NextContract]_vars

(***************************************************************************)
(* Reading the sinks back.                                                 *)
(***************************************************************************)
\* the positions of the line ends of the file
LineEnds(bytes) == { i \in 1..Len(bytes) : bytes[i].k = "nl" }

\* the file ends with a line end (or is empty)
Terminated(bytes) == bytes = <<>> \/ bytes[Len(bytes)].k = "nl"

\* the k-th line of the file, without its line end
FileLine(bytes, k) ==
    LET ends == LineEnds(bytes)
        last == CHOOSE i \in ends : Cardinality({ j \in ends : j <= i }) = k
        first == IF k = 1 THEN 1
                 ELSE 1 + CHOOSE i \in ends : Cardinality({ j \in ends : j <= i }) = k - 1
    IN SubSeq(bytes, first, last - 1)

EntryKeys ==
    << "timestamp", "input_features", "prediction", "probability_default", "credit_decision" >>

\* a line is one complete record: an object with exactly the five keys of an entry
WellFormed(line) ==
    /\ IsJsonObject(line)
    /\ Len(line) = 2 + 2 * Len(EntryKeys)
    /\ \A i \in 1..Len(EntryKeys) : line[2 * i] = Key(EntryKeys[i])
    /\ line[3].k = "num"
    /\ line[5].k = "obj"

\* the input_features of the entries of the active sink, in storage order
SinkInputs ==
    IF IsDbEnabled
    THEN [i \in 1..Len(table) |-> table[i].input_features]
    ELSE [i \in 1..Cardinality(LineEnds(logFile)) |->
            LET v == JsonGet(FileLine(logFile, i), "input_features")
            IN IF v.k = "obj" THEN v.o[1] ELSE EmptyObject]

\* every entry of the active sink is a complete, well-formed record
SinkWellFormed ==
    IF IsDbEnabled
    THEN \A i \in 1..Len(table) :
            table[i].input_features \in [Fields -> [kind : STRING, val : Int]]
    ELSE /\ Terminated(logFile)
         /\ \A i \in 1..Cardinality(LineEnds(logFile)) : WellFormed(FileLine(logFile, i))

\* the request body as json.loads reads it
ParsedBody(r) == IF req[r].body.parsable THEN req[r].body.obj ELSE EmptyObject

IsPredict(r) == req[r].method = "POST" /\ req[r].path = "/predict"

\* the POST /predict requests that have completed with status 200
Completed200 ==
    { r \in Requests : IsPredict(r) /\ req[r].pc = "done" /\ req[r].client.status_code = 200 }

\* a one-to-one matching of the requests of S with the entries of the active sink
\* under which each entry's input_features is the request's parsed body
Matches(S) ==
    /\ Len(SinkInputs) = Cardinality(S)
    /\ \E m \in [S -> 1..Len(SinkInputs)] :
          /\ \A a, b \in S : a /= b => m[a] /= m[b]
          /\ \A a \in S : SinkInputs[m[a]] = ParsedBody(a)

\* the hand-overs of request r to a sink
HandedBy(r) == { i \in 1..Len(handed) : handed[i].req = r }

\* dispatch has returned for request r
Returning(r) == req[r].pc \in {"reply", "done"}

(***************************************************************************)
(* Properties.                                                             *)
(***************************************************************************)
\* C1 as stated: once the concurrent POST /predict requests have all completed,
\* the active sink holds exactly one well-formed entry per request that returned
\* 200, matched one-to-one on input_features.
C1_ExactlyN ==
    (Quiet /\ phase \in {"created", "running"}) =>
        (SinkWellFormed /\ Matches(Completed200))

\* C1 (amended): once the concurrent POST /predict requests have all completed,
\* the active sink holds exactly one well-formed entry per request that returned
\* 200 and whose sink write did not raise, matched one-to-one on input_features;
\* the entry of a request whose write raised is lost.
C1_Durability ==
    (Quiet /\ phase \in {"created", "running"}) =>
        (SinkWellFormed /\ Matches({ r \in Completed200 : ~req[r].failed }))

\* C1 witness: two requests with different bodies completed with 200 and both
\* entries are in the sink
C1_Witness ==
    /\ Quiet
    /\ phase = "running"
    /\ Cardinality(Completed200) >= 2
    /\ \E r, q \in Completed200 : ParsedBody(r) /= ParsedBody(q)
    /\ Len(SinkInputs) = Cardinality(Completed200)

\* C2 as stated: every POST /predict request whose handler completed, whatever
\* its status, has exactly one entry handed to the sink, carrying its parsed body.
C2_EveryOutcomeLogged ==
    \A r \in Requests :
        (IsPredict(r) /\ Returning(r)) =>
            /\ Cardinality(HandedBy(r)) = 1
            /\ \A i \in HandedBy(r) : handed[i].entry.input_features = ParsedBody(r)

\* C2 (amended): a POST /predict request whose handler completed with status 200
\* has exactly one entry handed to the active sink, exactly once, carrying its
\* parsed body; a request with any other status (422, 503) has none.
C2_LoggedOnce ==
    \A r \in Requests :
        /\ Cardinality(HandedBy(r)) <= 1
        /\ \A i \in HandedBy(r) : handed[i].entry.input_features = ParsedBody(r)
        /\ (IsPredict(r) /\ Returning(r)) =>
              (Cardinality(HandedBy(r)) = 1 <=> req[r].handled.status_code = 200)

\* C2 witness: a request rejected with 422 left no entry, another with 200 left one
C2_Witness ==
    \E r, q \in Requests :
        /\ IsPredict(r) /\ req[r].pc = "done" /\ req[r].client.status_code = 422
        /\ HandedBy(r) = {}
        /\ IsPredict(q) /\ req[q].pc = "done" /\ req[q].client.status_code = 200
        /\ Cardinality(HandedBy(q)) = 1

\* the backend init_db chose
Chosen == IF startup = "connected" THEN "db" ELSE "file"

\* C3: the backend is chosen once at startup; while the service runs
\* is_db_enabled() does not change, whatever a request does (a failing insert
\* included), and every log write goes to the backend chosen.
C3_SinkSelection ==
    /\ [](\A i \in 1..Len(handed) : handed[i].sink = Chosen)
    /\ [](phase = "running" => (IsDbEnabled <=> startup = "connected"))
    /\ [][(phase = "running" /\ phase' = "running") =>
            (engine' = engine /\ startup' = startup)]_vars

\* C3 witness: a relational insert failed, and the row of another request is in
\* the table
C3_Witness ==
    \E r, q \in Requests :
        /\ r /= q
        /\ req[r].failed /\ \E i \in HandedBy(r) : handed[i].sink = "db"
        /\ req[q].pc = "done" /\ ~req[q].failed
        /\ \E i \in HandedBy(q) : handed[i].sink = "db"
        /\ Len(table) = 1

\* init_db fell back to the file
Fallback == startup \in {"unset", "engine_failed", "schema_failed"}

\* the entry is a line of the file
InFile(entry) ==
    \E k \in 1..Cardinality(LineEnds(logFile)) : FileLine(logFile, k) = Dumps(entry)

\* C4 without its last part: after a fallback the engine is None, startup has
\* completed, the model is loaded and /health says so, valid predictions return
\* 200 and every log write goes to the file, never to the table.
FallbackServes ==
    /\ phase \in {"running", "stopped"}
    /\ ~engine
    /\ session
    /\ \A r \in Requests :
          (req[r].during = "running" /\ Returning(r)) =>
             /\ (req[r].method = "GET" /\ req[r].path = "/health") =>
                   /\ req[r].client.status_code = 200
                   /\ JsonGet(req[r].client.body, "model_loaded") = BoolTok(TRUE)
             /\ (IsPredict(r) /\ req[r].body.parsable /\ Validate(req[r].body.obj)) =>
                   req[r].client.status_code = 200
    /\ \A i \in 1..Len(handed) : handed[i].sink = "file"
    /\ table = <<>>

\* C4 as stated: ..., and every log entry is appended to the JSONL file.
C4_EveryEntryInFile ==
    Fallback =>
        /\ FallbackServes
        /\ \A i \in 1..Len(handed) : InFile(handed[i].entry)

\* C4 (amended): if DATABASE_URL is unset, or creating the engine or the tables
\* fails, init_db returns with the engine None, startup completes, /health
\* reports model_loaded = true, every later valid POST /predict returns 200 and
\* every log write for the rest of the process lifetime goes to the JSONL file:
\* the entry is appended to it unless the file write itself raises, and then the
\* entry is dropped.
C4_Fallback ==
    Fallback =>
        /\ FallbackServes
        /\ \A i \in 1..Len(handed) : ~req[handed[i].req].failed => InFile(handed[i].entry)

\* C4 witness: creating the tables failed; /health answered model_loaded = true
\* and a prediction returned 200 with its entry in the file
C4_Witness ==
    /\ startup = "schema_failed"
    /\ \E r, q \in Requests :
          /\ req[r].path = "/health" /\ req[r].pc = "done"
          /\ JsonGet(req[r].client.body, "model_loaded") = BoolTok(TRUE)
          /\ IsPredict(q) /\ req[q].pc = "done" /\ req[q].client.status_code = 200
          /\ \E i \in HandedBy(q) : InFile(handed[i].entry)

\* C5: when the sink write raises (the relational insert, or the file open or
\* write), the client still receives the status code and the body of the
\* handler's response, as it would have had the write succeeded.
C5_FailureHidden ==
    \A r \in Requests :
        (IsPredict(r) /\ Returning(r) /\ req[r].failed) =>
            /\ req[r].client.status_code = req[r].handled.status_code
            /\ req[r].client.status_code = 200
            /\ req[r].client.body = Concat(req[r].handled.body_iterator)

\* C5 witness: a request whose sink write raised has been answered
C5_Witness == \E r \in Requests : req[r].failed /\ req[r].pc = "done"

\* the media type on the wire: the content-type header
MediaType(headers) ==
    { headers[i].value : i \in { j \in 1..Len(headers) : headers[j].name = "content-type" } }

Handled(r) == req[r].pc \in {"stream", "insert", "reply", "done"}

\* request r, a POST /predict, has been answered 200
Answered200(r) == IsPredict(r) /\ Returning(r) /\ req[r].client.status_code = 200

\* the fields of the response returned for request r
Answer(r) ==
    [prediction |-> JsonGet(req[r].client.body, "prediction"),
     probability_default |-> JsonGet(req[r].client.body, "probability_default"),
     credit_decision |-> JsonGet(req[r].client.body, "credit_decision")]

\* C7: in every 200 response of POST /predict, probability_default is in [0,1]
\* and prediction is 1 exactly when the returned probability_default, the rounded
\* value, is at least 0.10.
C7_ThresholdOnReturned ==
    \A r \in Requests :
        Answered200(r) =>
            /\ Answer(r).probability_default.k = "num"
            /\ Answer(r).probability_default.n >= 0
            /\ Answer(r).probability_default.n <= 10000000
            /\ Answer(r).prediction = NumTok(1)
                  <=> Answer(r).probability_default.n >= 1000000

\* C8: in every 200 response of POST /predict, prediction is 0 or 1 and
\* credit_decision is "denied" exactly when prediction is 1 and "approved"
\* exactly when it is 0.
C8_DecisionMatchesPrediction ==
    \A r \in Requests :
        Answered200(r) =>
            /\ Answer(r).prediction \in {NumTok(0), NumTok(1)}
            /\ Answer(r).credit_decision \in {StrTok("approved"), StrTok("denied")}
            /\ Answer(r).credit_decision = StrTok("denied") <=> Answer(r).prediction = NumTok(1)
            /\ Answer(r).credit_decision = StrTok("approved") <=> Answer(r).prediction = NumTok(0)

\* C8 witness: a request was answered 200 with prediction 1 and "denied"
C8_Witness ==
    \E r \in Requests :
        /\ IsPredict(r) /\ req[r].pc = "done" /\ req[r].client.status_code = 200
        /\ JsonGet(req[r].client.body, "prediction") = NumTok(1)
        /\ JsonGet(req[r].client.body, "credit_decision") = StrTok("denied")

\* the payload has a field that is missing, null, a non-numeric string or a list
Unscorable(payload) == \E f \in Fields : payload[f].kind \in {"missing", "null", "str", "list"}

\* C9: a POST /predict payload with at least one field missing, null, a
\* non-numeric string or a list is answered 422, never 200, and the model is not
\* invoked for it; any subset of missing fields, the empty object included.
C9_NoPartialScoring ==
    \A r \in Requests :
        (IsPredict(r) /\ Handled(r) /\ req[r].body.parsable /\ Unscorable(req[r].body.obj)) =>
            /\ req[r].handled.status_code = 422
            /\ ~req[r].invoked
            /\ HandedBy(r) = {}
            /\ Returning(r) => req[r].client.status_code = 422

\* C9 witness: the empty object was answered 422 while the model was loaded
C9_Witness ==
    \E r \in Requests :
        /\ IsPredict(r) /\ req[r].pc = "done" /\ req[r].during = "running"
        /\ req[r].body = JsonBody(EmptyObject)
        /\ req[r].client.status_code = 422

\* the table of ranges as declared, in tenths
Declared(f, x) ==
    CASE f = "EXT_SOURCES_MEAN" -> 0 <= x /\ x <= 10
      [] f = "CREDIT_TERM" -> 0 <= x /\ x <= 10
      [] f = "EXT_SOURCE_3" -> 0 <= x /\ x <= 10
      [] f = "GOODS_PRICE_CREDIT_PERCENT" -> 0 <= x /\ x <= 15
      [] f = "INSTAL_AMT_PAYMENT_sum" -> 0 <= x /\ x <= 1000000000
      [] f = "AMT_ANNUITY" -> 0 < x /\ x <= 10000000
      [] f = "POS_CNT_INSTALMENT_FUTURE_mean" -> 0 <= x /\ x <= 2000
      [] f = "DAYS_BIRTH" -> x % 10 = 0 /\ -300000 <= x /\ x <= -10
      [] f = "EXT_SOURCES_WEIGHTED" -> 0 <= x /\ x <= 30
      [] f = "EXT_SOURCE_2" -> 0 <= x /\ x <= 10

\* C10: a payload whose 10 fields are all numbers is accepted (not answered 422)
\* exactly when every field lies in its declared range: bounds inclusive, except
\* that AMT_ANNUITY excludes 0 and DAYS_BIRTH is an integer in [-30000, -1].
C10_RangesAsDeclared ==
    \A r \in Requests :
        (IsPredict(r) /\ Handled(r) /\ req[r].body.parsable
            /\ \A f \in Fields : req[r].body.obj[f].kind = "num") =>
            (req[r].handled.status_code /= 422
                <=> \A f \in Fields : Declared(f, req[r].body.obj[f].val))

\* C10 witness: AMT_ANNUITY = 0.0 with every other field valid was answered 422
C10_Witness ==
    \E r \in Requests :
        /\ IsPredict(r) /\ req[r].pc = "done"
        /\ req[r].body = JsonBody([VALID_PAYLOAD EXCEPT !["AMT_ANNUITY"] = Num(0)])
        /\ req[r].client.status_code = 422

\* request r is a GET /health
IsHealth(r) == req[r].method = "GET" /\ req[r].path = "/health"

\* While the session is None a valid POST /predict is answered 503 and /health
\* reports model_loaded = false; /health reports false in exactly those states.
\* (A request that arrived in phase "created" is served with the session None,
\* one that arrived in phase "running" with the session loaded.)
UnavailableIs503 ==
    \A r \in Requests :
        Returning(r) =>
            /\ (IsPredict(r) /\ req[r].body.parsable /\ Validate(req[r].body.obj)) =>
                  (req[r].client.status_code = 503 <=> req[r].during = "created")
            /\ IsHealth(r) =>
                  /\ req[r].client.status_code = 200
                  /\ JsonGet(req[r].client.body, "model_loaded") = BoolTok(FALSE)
                        <=> req[r].during = "created"

\* the service accepts a request
Serving == ENABLED (\E r \in Requests : Arrive(r, SampleBodies))

\* C11: whenever the model session is not loaded, startup not completed or the
\* load failed, a valid POST /predict is answered 503 (never 200 or 422) and
\* /health reports model_loaded = false, in exactly those states; after a model
\* load failure at startup the service is serving (and answers 503), not stopped.
C11_UnavailableServes ==
    /\ UnavailableIs503
    /\ (phase = "failed" /\ \E r \in Requests : req[r].pc = "idle") => Serving

\* how many lines of the file are the entry
Copies(entry) ==
    Cardinality({ k \in 1..Cardinality(LineEnds(logFile)) : FileLine(logFile, k) = Dumps(entry) })

\* C12 as stated: the entry of every POST /predict request that returned 200 is
\* stored in the local JSONL file at least once, whichever backend was selected
\* and even when the relational insert failed.
C12_AlwaysInFile ==
    \A r \in Requests :
        (Answered200(r) /\ req[r].pc = "done") =>
            \E i \in HandedBy(r) : Copies(handed[i].entry) >= 1

\* C12 (amended): the entry of a POST /predict request that returned 200 is
\* stored in the local JSONL file, exactly once, when the file backend was
\* selected at startup and the file write did not raise; with the relational
\* backend selected it is never stored in the file, also when the insert fails.
C12_FileBackendOnly ==
    \A r \in Requests :
        Answered200(r) =>
            /\ Cardinality(HandedBy(r)) = 1
            /\ \A i \in HandedBy(r) :
                  Copies(handed[i].entry) =
                      IF handed[i].sink = "file" /\ ~req[r].failed THEN 1 ELSE 0

\* C12 witness: a request returned 200 after its relational insert failed, and
\* the file is empty
C12_Witness ==
    \E r \in Requests :
        /\ Answered200(r) /\ req[r].pc = "done" /\ req[r].failed
        /\ \E i \in HandedBy(r) : handed[i].sink = "db"
        /\ logFile = <<>>

\* response bodies that json.loads rejects: not JSON, empty, and a 200 body
\* cut before its closing brace
UnparsableBodies ==
    { << Garbage >>, <<>> }
    \cup { SubSeq(PredictionResponse(p), 1, 7) : p \in SampleProbabilities }

\* the entry built from a response body that does not parse has no outcome
OutcomeAbsent ==
    \A bytes \in UnparsableBodies :
        LET entry == LogEntry(clock, EmptyObject, bytes)
        IN /\ entry.prediction = NullTok
           /\ entry.probability_default = NullTok
           /\ entry.credit_decision = NullTok

\* the middleware neither raised nor changed the handler's response
Untouched(r) ==
    /\ req[r].client.status_code = req[r].handled.status_code
    /\ req[r].client.raw_headers = req[r].handled.raw_headers
    /\ req[r].client.body = Concat(req[r].handled.body_iterator)

\* C13 as stated: a POST /predict whose body does not parse is still handled and
\* an entry with input_features = {} is logged for it; an unparsable response
\* body gives an entry without outcome; the response is not changed.
C13_MalformedLogged ==
    /\ OutcomeAbsent
    /\ \A r \in Requests :
          (IsPredict(r) /\ ~req[r].body.parsable /\ Returning(r)) =>
             /\ Untouched(r)
             /\ \E i \in HandedBy(r) : handed[i].entry.input_features = EmptyObject

\* C13 (amended): for a POST /predict whose body does not parse the middleware
\* takes {} as the input payload and still delegates to the handler, which
\* answers 422; as only 200 responses are logged, no entry is written for it.
\* An entry built from a response body that does not parse has null outcome
\* fields.  In neither case does the middleware raise or change the response.
C13_MalformedDegrades ==
    /\ OutcomeAbsent
    /\ \A r \in Requests :
          (IsPredict(r) /\ ~req[r].body.parsable) =>
             /\ req[r].pc \notin {"idle", "recv"} => req[r].input_data = EmptyObject
             /\ Handled(r) => req[r].handled.status_code = 422
             /\ HandedBy(r) = {}
             /\ Returning(r) => Untouched(r)

\* C13 witness: a request whose body does not parse has been answered 422
C13_Witness ==
    \E r \in Requests :
        /\ IsPredict(r) /\ ~req[r].body.parsable /\ req[r].pc = "done"
        /\ req[r].input_data = EmptyObject
        /\ req[r].client.status_code = 422

\* request r has arrived and is not a POST on /predict
NotPredict(r) == req[r].pc /= "idle" /\ ~IsPredict(r)

\* the middleware has read neither body of request r and hands back the
\* handler's response as it is
PassedAsIs(r) ==
    /\ req[r].input_data = EmptyObject
    /\ req[r].response_body = <<>>
    /\ req[r].response = NoResponse
    /\ Returning(r) => Untouched(r)

\* C14: for a request that is not a POST on /predict (GET /health, GET /predict,
\* POST on another path) the handler's response is passed through as it is, the
\* middleware reads neither the request body nor the response body, and no step
\* of the request changes the JSONL file or the table.
C14_OnlyPredict ==
    [][\A r \in Requests :
          (NotPredict(r)' /\ req[r]' /= req[r]) =>
              /\ PassedAsIs(r)'
              /\ UNCHANGED << logFile, table, handed, clock >>]_vars

\* C14 witness: a GET on /predict has been answered 405 and a GET on /health 200
\* while the file holds a line
C14_Witness ==
    /\ logFile /= <<>>
    /\ \E r \in Requests :
          /\ req[r].pc = "done" /\ req[r].method = "GET"
          /\ \/ req[r].path = "/predict" /\ req[r].client.status_code = 405
             \/ req[r].path = "/health" /\ req[r].client.status_code = 200

\* every line of the file is one complete record followed by a line end
WholeLines(bytes) ==
    /\ Terminated(bytes)
    /\ \A k \in 1..Cardinality(LineEnds(bytes)) : WellFormed(FileLine(bytes, k))

\* C15: with the file backend and concurrent POST /predict requests, at most one
\* request at a time is between opening the file and the end of its append: a
\* step that changes the file is the step of one request, which enters with its
\* response buffered and leaves with the write finished while no other request
\* moves, and it adds that request's whole record and its line end after the
\* bytes already there; so every line is one complete record.
C15_OneWriter ==
    [][logFile' /= logFile =>
          /\ \E r \in Requests :
                /\ Buffered(r) /\ req[r].pc' = "reply"
                /\ \A q \in Requests \ {r} : req[q]' = req[q]
                /\ Len(handed') = Len(handed) + 1
                /\ handed'[Len(handed')].req = r
                /\ handed'[Len(handed')].sink = "file"
                /\ logFile' = logFile \o Dumps(handed'[Len(handed')].entry) \o << Newline >>
          /\ WholeLines(logFile')]_vars

\* C15 witness: two requests in flight at once have both written to the file
C15_Witness ==
    \E r, q \in Requests :
        /\ r /= q
        /\ req[r].pc = "reply" /\ req[q].pc = "reply"
        /\ ~req[r].failed /\ ~req[q].failed
        /\ \E i \in HandedBy(r) : handed[i].sink = "file"
        /\ \E i \in HandedBy(q) : handed[i].sink = "file"
        /\ Cardinality(LineEnds(logFile)) = 2

\* the names of the fields of an entry
EntryFields == { EntryKeys[i] : i \in 1..Len(EntryKeys) }

\* C16: a POST /predict request causes a sink write if and only if the handler's
\* response has status 200; for any other status nothing is handed to either
\* backend; every entry has exactly the fields timestamp, input_features,
\* prediction, probability_default, credit_decision: so has every line of the
\* file, and every row of the table besides its key id.
C16_MinimalVariant ==
    /\ \A r \in Requests :
          (IsPredict(r) /\ Returning(r)) =>
             /\ HandedBy(r) /= {} <=> req[r].handled.status_code = 200
             /\ req[r].handled.status_code /= 200 =>
                   \A i \in 1..Len(handed) : handed[i].req /= r
    /\ \A r \in Requests : (IsPredict(r) /\ ~Returning(r) /\ HandedBy(r) /= {}) =>
          req[r].handled.status_code = 200
    /\ \A i \in 1..Len(handed) : DOMAIN handed[i].entry = EntryFields
    /\ WholeLines(logFile)
    /\ \A i \in 1..Len(table) : DOMAIN table[i] = EntryFields \cup {"id"}

\* C16 witness: one request answered 200 has an entry in a sink, and another
\* answered 422 or 503 has none
C16_Witness ==
    \E r, q \in Requests :
        /\ IsPredict(r) /\ req[r].pc = "done" /\ req[r].handled.status_code = 200
        /\ HandedBy(r) /= {} /\ ~req[r].failed
        /\ logFile /= <<>> \/ table /= <<>>
        /\ IsPredict(q) /\ req[q].pc = "done"
        /\ req[q].handled.status_code \in {422, 503}
        /\ HandedBy(q) = {}

\* the order of the places of dispatch for a POST /predict request
PcOrder ==
    { << "idle", "recv" >>, << "recv", "call" >>, << "call", "stream" >>,
      << "stream", "stream" >>, << "stream", "insert" >>, << "stream", "reply" >>,
      << "insert", "reply" >>, << "reply", "done" >> }

\* the entry request r handed over is in the sink it was handed to
Stored(r) ==
    \E i \in HandedBy(r) :
        IF handed[i].sink = "file"
        THEN Copies(handed[i].entry) >= 1
        ELSE \E k \in 1..Len(table) : table[k] = Row(k, handed[i].entry)

\* a step of request r keeps the order: the body is captured before the handler
\* is invoked, the response is buffered to its end before the sink write or the
\* return, and only a 200 response goes to a sink
InOrder(r) ==
    /\ << req[r].pc, req[r].pc' >> \in PcOrder
    /\ req[r].pc' = "call" => req[r].input_data' = InputData(req[r].body) /\ ~Handled(r)
    /\ req[r].pc' = "stream" /\ req[r].pc = "call" => req[r].response_body' = <<>>
    /\ req[r].pc = "stream" /\ req[r].pc' /= "stream" =>
          /\ req[r].response.body_iterator = <<>>
          /\ req[r].response_body = Concat(req[r].handled.body_iterator)
          /\ HandedBy(r) = {}
          /\ HandedBy(r)' /= {} <=> req[r].handled.status_code = 200
    /\ req[r].pc' = "insert" => req[r].client' = NoClient
    /\ req[r].pc = "reply" => UNCHANGED << logFile, table, handed >>

\* the response is not returned before the sink write attempt has finished
WriteBeforeReturn(r) ==
    (IsPredict(r) /\ Returning(r)) =>
        /\ req[r].response_body = Concat(req[r].handled.body_iterator)
        /\ req[r].handled.status_code = 200 =>
              /\ HandedBy(r) /= {}
              /\ req[r].failed \/ Stored(r)

\* C17: for every POST /predict request the steps happen in the order request
\* body captured, handler invoked, response body fully buffered, sink write
\* attempted (only for status 200), response returned; the response is never
\* returned before the sink write attempt has finished; and, the handler and the
\* sink write finishing, the caller eventually receives a response.
C17_OrderAndResponse ==
    /\ [][\A r \in Requests : (IsPredict(r)' /\ req[r]' /= req[r]) => InOrder(r)]_vars
    /\ [](\A r \in Requests : WriteBeforeReturn(r))
    /\ \A r \in Requests :
          (IsPredict(r) /\ req[r].pc /= "idle") ~> (req[r].pc = "done" /\ req[r].client /= NoClient)

\* C17 witness: a request answered 200 has gone through the insert and its row is
\* in the table, while another request is still being served
C17_Witness ==
    \E r, q \in Requests :
        /\ IsPredict(r) /\ req[r].pc = "done" /\ req[r].client.status_code = 200
        /\ \E i \in HandedBy(r) : handed[i].sink = "db"
        /\ ~req[r].failed /\ Stored(r)
        /\ IsPredict(q) /\ req[q].pc \in {"call", "stream", "insert"}

====
